---------------------------- MODULE Spec2Model ----------------------------
(***************************************************************************)
(* Model of the WA_ID_Finder matching script fuzzy_match2.py: the World    *)
(* Athletics name list and dict, the two matching approaches (name-first   *)
(* and birth date-first), the consensus of the matching loop, the          *)
(* write-back of the results into athlete_df and the confidence columns.   *)
(* fuzzy_match.py (name-first only) and fuzzymatch_3.py (one copy per      *)
(* fuzzy library) repeat the same functions.  Of fuzzymatch_3.py the model *)
(* has what it adds: one result per athlete with the final match of each   *)
(* library, their mean as Overall_Score, and the summary report (Spec3).   *)
(* Of app.py the model has fetch_all_competitors with its fetch tasks and  *)
(* their semaphore (SpecBurst, FairSpecFetch).                             *)
(*                                                                         *)
(* Representation.                                                         *)
(*  - A name is a sequence of tokens, a token a character code (1 = "a",   *)
(*    2 = "b", 3 = "c"); 0 is the blank that joins tokens.                 *)
(*  - Scores of the scorer are integers 0..100.  The script computes with  *)
(*    floats (0.7 * n + 0.3 * b, (s1 + s2) / 2, s * 0.9); the model keeps  *)
(*    every combined and overall score in HUNDREDTHS (7000 is 70.0), which *)
(*    makes the three operations exact integers.  For integer name scores  *)
(*    the float results fall on the same side of 0, 70, 90 and 100 as the  *)
(*    exact ones.                                                          *)
(*  - A birth-date string is "2000-01-05" or "1998-03-02"; "None" is       *)
(*    Python's None (line 33: a reference row without date); "NaN" is the  *)
(*    float nan that Series.dt.strftime gives for a missing (NaT) roster   *)
(*    date (line 23).  nan is truthy and equal to nothing.                 *)
(*  - The rows of the two sheets are read one at a time: LoadRow and       *)
(*    MatchAthlete / SkipAthlete each take the next row of the sheet.      *)
(*  - Row labels of athlete_df are positions 1..Len(athlete_df).           *)
(***************************************************************************)
EXTENDS Integers, Sequences, FiniteSets, Bags, TLC

VARIABLES
    wa_codes_df,        \* rows of sheet WorldAthletics_codes read so far
    wa_athletes_dict,   \* dict name -> data, as a sequence in insertion order
    wa_names_list,      \* list of the names, one per row
    athlete_df,         \* rows of sheet Athlete, with the output columns
    results,            \* list of the per-athlete result dicts
    loc,                \* locals of the last iteration of the matching loop
    wpos,               \* position of the write-back loop in results
    pc,                 \* position of the script
    results_df,         \* fuzzymatch_3.py: the per-athlete results of the
                        \* two fuzzy libraries, then with the summary columns
    summary,            \* fuzzymatch_3.py: the counts of the summary report
    pc3,                \* fuzzymatch_3.py: position of the script
    athlete_names,      \* app.py: the argument of fetch_all_competitors
    tasks,              \* app.py: the bag of the fetch_competitor_info
                        \* coroutines, each with its position and result
    semaphore,          \* app.py: the value of the asyncio.Semaphore
    fetched,            \* app.py: the list results of fetch_all_competitors
    progress,           \* app.py: number of progress.advance calls
    pc4                 \* app.py: position of fetch_all_competitors

\* the state of fuzzy_match2.py
vars2 == <<wa_codes_df, wa_athletes_dict, wa_names_list, athlete_df, results,
           loc, wpos, pc>>

\* the state of fuzzymatch_3.py from its matching loop on
vars3 == <<results_df, summary, pc3>>

\* the state of fetch_all_competitors of app.py
vars4 == <<athlete_names, tasks, semaphore, fetched, progress, pc4>>

vars == <<vars2, vars3, vars4>>

---------------------------------------------------------------------------
(* Bounds of the model *)

MaxPool == 2

MaxRoster == 2

\* athletes without WA_no in the run of fuzzymatch_3.py
MaxResults == 2

\* athlete names of a call of fetch_all_competitors
MaxNames == 2

\* athlete names of a call with more names than the semaphore has permits
MaxBurst == 11

---------------------------------------------------------------------------
(* Input domains *)

D1 == "2000-01-05"

D2 == "1998-03-02"

\* canonical names of the reference table: "a b", "b a", "c"
WaNames == {<<1, 2>>, <<2, 1>>, <<3>>}

\* birthDate cell of a reference row: a date, or missing
WaBirthCells == {D1, D2, "NaT"}

\* (First_name, Last_name) of a roster row: ("a","b"), ("a","c")
RosterNames == {<<1, 2>>, <<1, 3>>}

\* Birth_date cell of a roster row: a date, or missing
RosterBirthCells == {D1, "NaT"}

---------------------------------------------------------------------------
(* Python values *)

\* bool(v) of a birth-date value: None is falsy; a non-empty string and the
\* float nan are truthy
Truthy(v) == v # "None"

\* a == b on birth-date values: nan equals nothing, not even itself
PyEq(a, b) == a # "NaN" /\ b # "NaN" /\ a = b

\* the match dict that is None
NoMatch == [none |-> TRUE]

IsMatch(m) == m # NoMatch

---------------------------------------------------------------------------
(* The similarity scorer: fuzz.token_sort_ratio *)

RECURSIVE InsertSorted(_, _)
\* insert token t into the sorted token sequence s
InsertSorted(t, s) ==
    IF s = <<>> THEN <<t>>
    ELSE IF t <= Head(s) THEN <<t>> \o s
    ELSE <<Head(s)>> \o InsertSorted(t, Tail(s))

RECURSIVE SortTokens(_)
\* sorted(tokens)
SortTokens(s) ==
    IF s = <<>> THEN <<>> ELSE InsertSorted(Head(s), SortTokens(Tail(s)))

RECURSIVE JoinTokens(_)
\* " ".join(tokens): the characters of the string, 0 the blank
JoinTokens(s) ==
    IF s = <<>> THEN <<>>
    ELSE IF Len(s) = 1 THEN <<Head(s)>>
    ELSE <<Head(s), 0>> \o JoinTokens(Tail(s))

\* variant of token_sort that keeps the order of the tokens
token_sort_Unsorted(name) == JoinTokens(name)

\* the string a name is compared as: its tokens sorted and joined
token_sort(name) == JoinTokens(SortTokens(name))

RECURSIVE LCS(_, _)
\* number of matching characters of two strings (longest common subsequence)
LCS(a, b) ==
    IF a = <<>> \/ b = <<>> THEN 0
    ELSE IF Head(a) = Head(b) THEN 1 + LCS(Tail(a), Tail(b))
    ELSE LET x == LCS(Tail(a), b)
             y == LCS(a, Tail(b))
         IN  IF x >= y THEN x ELSE y

\* int(round(num / den)), Python's round: half to even
RoundDiv(num, den) ==
    LET q == num \div den
        r == num % den
    IN  IF 2 * r > den THEN q + 1
        ELSE IF 2 * r < den THEN q
        ELSE IF q % 2 = 0 THEN q ELSE q + 1

\* ratio of two strings: 0 if either is empty, else round(100 * 2M / T)
ratio(a, b) ==
    IF a = <<>> \/ b = <<>> THEN 0
    ELSE RoundDiv(200 * LCS(a, b), Len(a) + Len(b))

\* fuzz.token_sort_ratio(s1, s2): an integer 0..100
token_sort_ratio(s1, s2) == ratio(token_sort(s1), token_sort(s2))

---------------------------------------------------------------------------
(* process.extract(query, choices, limit, scorer) *)

\* the (choice, score) pairs in the order of choices
ScoreAll(query, choices) ==
    [k \in 1..Len(choices) |->
        [name |-> choices[k], score |-> token_sort_ratio(query, choices[k])]]

\* index of the first pair of sl, among idxs, with the largest score
FirstMax(sl, idxs) ==
    CHOOSE k \in idxs :
        \A j \in idxs : sl[k].score > sl[j].score
                        \/ (sl[k].score = sl[j].score /\ k <= j)

RECURSIVE NLargest(_, _, _)
\* heapq.nlargest(n, sl, key=score): descending score, ties in list order
NLargest(n, sl, idxs) ==
    IF n = 0 \/ idxs = {} THEN <<>>
    ELSE LET k == FirstMax(sl, idxs)
         IN  <<sl[k]>> \o NLargest(n - 1, sl, idxs \ {k})

\* limit=5 of every process.extract call of the scripts
Limit == 5

extract(query, choices) ==
    LET sl == ScoreAll(query, choices)
    IN  NLargest(Limit, sl, 1..Len(sl))

---------------------------------------------------------------------------
(* wa_athletes_dict: a Python dict, kept as the sequence of its items in   *)
(* insertion order; an item is [name, ID, birthDate]                       *)

HasKey(d, name) == \E k \in 1..Len(d) : d[k].name = name

KeyIndex(d, name) == CHOOSE k \in 1..Len(d) : d[k].name = name

\* d[name]
DictGet(d, name) == d[KeyIndex(d, name)]

\* d[name] = item: an existing key keeps its place and takes the new value
DictSet(d, item) ==
    IF HasKey(d, item.name)
    THEN [d EXCEPT ![KeyIndex(d, item.name)] = item]
    ELSE Append(d, item)

\* list(d.keys())
Keys(d) == [k \in 1..Len(d) |-> d[k].name]

\* {name: data for name, data in d.items() if data['birthDate'] == date}
FilterBirth(d, date) == SelectSeq(d, LAMBDA it : PyEq(it.birthDate, date))

---------------------------------------------------------------------------
(* Approach 1: name-first matching (find_best_match_name_first) *)

\* birth_date_score: 100 if both dates are truthy and equal, else 0
BirthDateScore(athlete_birth_date, wa_birth_date) ==
    IF Truthy(athlete_birth_date) /\ Truthy(wa_birth_date)
       /\ PyEq(athlete_birth_date, wa_birth_date)
    THEN 100 ELSE 0

\* variant of CombinedNameFirst with the two weights exchanged
CombinedNameFirst_Swapped(name_score, athlete_birth_date, wa_birth_date) ==
    IF Truthy(athlete_birth_date) /\ Truthy(wa_birth_date)
    THEN 30 * name_score
         + 70 * BirthDateScore(athlete_birth_date, wa_birth_date)
    ELSE 100 * name_score

\* combined_score (hundredths): 0.7 * name + 0.3 * birth if both dates are
\* truthy, else the name score
CombinedNameFirst(name_score, athlete_birth_date, wa_birth_date) ==
    IF Truthy(athlete_birth_date) /\ Truthy(wa_birth_date)
    THEN 70 * name_score
         + 30 * BirthDateScore(athlete_birth_date, wa_birth_date)
    ELSE 100 * name_score

\* the dict built for one candidate of the name-first loop
NameFirstCandidate(m, athlete_birth_date, wa_dict) ==
    LET wa_data == DictGet(wa_dict, m.name)
    IN  [Matched_Name           |-> m.name,
         Matched_ID             |-> wa_data.ID,
         Matched_Birth_Date     |-> wa_data.birthDate,
         Name_Match_Score       |-> m.score,
         Birth_Date_Match_Score |->
             BirthDateScore(athlete_birth_date, wa_data.birthDate),
         Combined_Match_Score   |->
             CombinedNameFirst(m.score, athlete_birth_date, wa_data.birthDate)]

\* variant of Better that also takes a candidate of equal score
Better_OrEqual(cand, best_score) == cand.Combined_Match_Score >= best_score

\* if combined_score > best_combined_score: the candidate replaces the best
Better(cand, best_score) == cand.Combined_Match_Score > best_score

RECURSIVE NameFirstLoop(_, _, _, _, _)
\* the for loop over matches, with best_match and best_combined_score
NameFirstLoop(matches, athlete_birth_date, wa_dict, best_match, best_score) ==
    IF matches = <<>> THEN best_match
    ELSE LET cand == NameFirstCandidate(Head(matches), athlete_birth_date,
                                        wa_dict)
         IN  IF Better(cand, best_score)
             THEN NameFirstLoop(Tail(matches), athlete_birth_date, wa_dict,
                                cand, cand.Combined_Match_Score)
             ELSE NameFirstLoop(Tail(matches), athlete_birth_date, wa_dict,
                                best_match, best_score)

find_best_match_name_first(athlete_name, athlete_birth_date, wa_names, wa_dict) ==
    NameFirstLoop(extract(athlete_name, wa_names), athlete_birth_date,
                  wa_dict, NoMatch, 0)

---------------------------------------------------------------------------
(* Approach 2: birth date-first matching (find_best_match_birth_first) *)

\* variant of BirthFirstCandidates that never filters
BirthFirstCandidates_Unfiltered(athlete_birth_date, wa_dict) == wa_dict

\* variant of BirthFirstCandidates that falls back to the whole dict when no
\* item has the athlete's birth date
BirthFirstCandidates_Fallback(athlete_birth_date, wa_dict) ==
    IF Truthy(athlete_birth_date)
       /\ FilterBirth(wa_dict, athlete_birth_date) # <<>>
    THEN FilterBirth(wa_dict, athlete_birth_date)
    ELSE wa_dict

\* candidates: the items with the athlete's birth date if that is truthy,
\* else the whole dict
BirthFirstCandidates(athlete_birth_date, wa_dict) ==
    IF Truthy(athlete_birth_date)
    THEN FilterBirth(wa_dict, athlete_birth_date)
    ELSE wa_dict

\* variant of CombinedBirthFirst with the weights of the name-first approach
CombinedBirthFirst_NameWeighted(name_score) == 30 * 100 + 70 * name_score

\* variant of CombinedBirthFirst that adds the whole name score
CombinedBirthFirst_Unweighted(name_score) == 70 * 100 + 100 * name_score

\* combined_score (hundredths): 0.7 * 100 + 0.3 * name_score
CombinedBirthFirst(name_score) == 70 * 100 + 30 * name_score

\* the dict built for one candidate of the birth-first loop
BirthFirstCandidate(m, candidates) ==
    LET data == DictGet(candidates, m.name)
    IN  [Matched_Name           |-> m.name,
         Matched_ID             |-> data.ID,
         Matched_Birth_Date     |-> data.birthDate,
         Name_Match_Score       |-> m.score,
         Birth_Date_Match_Score |-> 100,
         Combined_Match_Score   |-> CombinedBirthFirst(m.score)]

RECURSIVE BirthFirstLoop(_, _, _, _)
\* the for loop over matches, with best_match and best_score
BirthFirstLoop(matches, candidates, best_match, best_score) ==
    IF matches = <<>> THEN best_match
    ELSE LET cand == BirthFirstCandidate(Head(matches), candidates)
         IN  IF Better(cand, best_score)
             THEN BirthFirstLoop(Tail(matches), candidates, cand,
                                 cand.Combined_Match_Score)
             ELSE BirthFirstLoop(Tail(matches), candidates, best_match,
                                 best_score)

find_best_match_birth_first(athlete_birth_date, athlete_name, wa_dict) ==
    LET candidates == BirthFirstCandidates(athlete_birth_date, wa_dict)
    IN  IF candidates = <<>> THEN NoMatch
        ELSE BirthFirstLoop(extract(athlete_name, Keys(candidates)),
                            candidates, NoMatch, 0)

---------------------------------------------------------------------------
(* The body of the matching loop *)

\* variant of BestOfOrientations where the reversed orientation wins a tie
BestOfOrientations_Strict(ma, mb) ==
    IF IsMatch(ma) /\ IsMatch(mb)
    THEN IF ma.Combined_Match_Score > mb.Combined_Match_Score THEN ma ELSE mb
    ELSE IF IsMatch(ma) THEN ma ELSE mb

\* matchXa if both exist and a's score >= b's, else matchXa or matchXb
BestOfOrientations(ma, mb) ==
    IF IsMatch(ma) /\ IsMatch(mb)
    THEN IF ma.Combined_Match_Score >= mb.Combined_Match_Score THEN ma ELSE mb
    ELSE IF IsMatch(ma) THEN ma ELSE mb

\* variant of AverageScore that keeps the score of approach 1
AverageScore_First(s1, s2) == s1

\* both approaches point to the same WA ID: the average of the two scores
AverageScore(s1, s2) == (s1 + s2) \div 2

\* variant of Penalised without the penalty
Penalised_Not(s) == s

\* the approaches disagree: the higher score, penalised by 0.9
Penalised(s) == (s * 9) \div 10

\* overall score of a query without final match (None)
NoScore == 0 - 1

\* variant of PassThroughScore that applies the disagreement penalty
PassThroughScore_Penalised(final_match) ==
    IF IsMatch(final_match) THEN (final_match.Combined_Match_Score * 9) \div 10
    ELSE NoScore

\* at most one approach has a match: its combined score, or None
PassThroughScore(final_match) ==
    IF IsMatch(final_match) THEN final_match.Combined_Match_Score
    ELSE NoScore

\* variant of Combine where approach 2 wins a tie of different IDs
Combine_Strict(best_match1, best_match2) ==
    IF IsMatch(best_match1) /\ IsMatch(best_match2)
    THEN IF best_match1.Matched_ID = best_match2.Matched_ID
         THEN [final_match   |-> best_match1,
               overall_score |-> AverageScore(best_match1.Combined_Match_Score,
                                              best_match2.Combined_Match_Score)]
         ELSE IF best_match1.Combined_Match_Score
                 > best_match2.Combined_Match_Score
              THEN [final_match   |-> best_match1,
                    overall_score |->
                        Penalised(best_match1.Combined_Match_Score)]
              ELSE [final_match   |-> best_match2,
                    overall_score |->
                        Penalised(best_match2.Combined_Match_Score)]
    ELSE LET fm == IF IsMatch(best_match1) THEN best_match1 ELSE best_match2
         IN  [final_match   |-> fm,
              overall_score |-> PassThroughScore(fm)]

\* Combine the results: final_match and overall_score
Combine(best_match1, best_match2) ==
    IF IsMatch(best_match1) /\ IsMatch(best_match2)
    THEN IF best_match1.Matched_ID = best_match2.Matched_ID
         THEN [final_match   |-> best_match1,
               overall_score |-> AverageScore(best_match1.Combined_Match_Score,
                                              best_match2.Combined_Match_Score)]
         ELSE IF best_match1.Combined_Match_Score
                 >= best_match2.Combined_Match_Score
              THEN [final_match   |-> best_match1,
                    overall_score |->
                        Penalised(best_match1.Combined_Match_Score)]
              ELSE [final_match   |-> best_match2,
                    overall_score |->
                        Penalised(best_match2.Combined_Match_Score)]
    ELSE LET fm == IF IsMatch(best_match1) THEN best_match1 ELSE best_match2
         IN  [final_match   |-> fm,
              overall_score |-> PassThroughScore(fm)]

---------------------------------------------------------------------------
(* Data preparation *)

\* birth_date_str of a reference row: strftime if pd.notna, else None
WaBirthStr(cell) == IF cell = "NaT" THEN "None" ELSE cell

\* Birth_date_str of a roster row: to_datetime(...).dt.strftime, which gives
\* the float nan for a missing date
RosterBirthStr(cell) == IF cell = "NaT" THEN "NaN" ELSE cell

\* First_name + ' ' + Last_name
Full_Name(row) == <<row.First_name, row.Last_name>>

\* Last_name + ' ' + First_name
Full_Name_Reversed(row) == <<row.Last_name, row.First_name>>

\* rows of sheet WorldAthletics_codes (the ID is added by LoadRow)
WaRows == [Name : WaNames, birthDate : WaBirthCells]

\* rows of sheet Athlete without WA_no
RowsWithoutWa ==
    [First_name : {n[1] : n \in RosterNames},
     Last_name  : {n[2] : n \in RosterNames},
     Birth_date : RosterBirthCells,
     WA_no      : {"NaN"}]

\* rows of sheet Athlete that have a WA_no already
RowsWithWa ==
    {[First_name |-> 1, Last_name |-> 2, Birth_date |-> D1,
      WA_no |-> "14201847"]}

\* athlete_df['WA_no'].isna()
WithoutWa(row) == row.WA_no = "NaN"

\* values of the output columns that are None
NoName == <<>>

NoID == 0

\* variant of EmptyColumns where a row starts in the lowest band
EmptyColumns_Low ==
    [WA_Matched_Name       |-> NoName,
     WA_Matched_Birth_Date |-> "None",
     WA_Matched_ID         |-> NoID,
     WA_Match_Score        |-> NoScore,
     A1_Match_Score        |-> NoScore,
     A2_Match_Score        |-> NoScore,
     WA_Match_Confidence   |-> "Low",
     WA_Recommended        |-> FALSE,
     WA_Recommended_ID     |-> NoID]

\* the output columns as lines 170-177 and 201 create them
EmptyColumns ==
    [WA_Matched_Name       |-> NoName,
     WA_Matched_Birth_Date |-> "None",
     WA_Matched_ID         |-> NoID,
     WA_Match_Score        |-> NoScore,
     A1_Match_Score        |-> NoScore,
     A2_Match_Score        |-> NoScore,
     WA_Match_Confidence   |-> "None",
     WA_Recommended        |-> FALSE,
     WA_Recommended_ID     |-> NoID]

\* locals of the matching loop before its first iteration
NoLocals ==
    [idx |-> 0, Full_Name |-> <<>>, Birth_date_str |-> "None",
     match1a |-> NoMatch, match1b |-> NoMatch, best_match1 |-> NoMatch,
     match2a |-> NoMatch, match2b |-> NoMatch, best_match2 |-> NoMatch,
     final_match |-> NoMatch, overall_score |-> NoScore]

---------------------------------------------------------------------------
(* Confidence *)

\* variant of Confidence with the High threshold exclusive
Confidence_Exclusive(score) ==
    IF score > 9000 THEN "High"
    ELSE IF score >= 7000 THEN "Medium"
    ELSE "Low"

\* the confidence band of an overall score (hundredths)
Confidence(score) ==
    IF score >= 9000 THEN "High"
    ELSE IF score >= 7000 THEN "Medium"
    ELSE "Low"

\* WA_Recommended of an overall score
Recommended(score) ==
    IF score >= 9000 THEN TRUE
    ELSE IF score >= 7000 THEN TRUE
    ELSE FALSE

\* variant of RecommendMask at the Medium threshold
RecommendMask_Medium(row) ==
    row.WA_Match_Score # NoScore /\ row.WA_Match_Score >= 7000

\* the mask athlete_df['WA_Match_Score'] >= 90: a None score compares False
RecommendMask(row) ==
    row.WA_Match_Score # NoScore /\ row.WA_Match_Score >= 9000

---------------------------------------------------------------------------
(* fuzzymatch_3.py: the summary of the results of the two fuzzy libraries *)

\* Overall scores (hundredths) that one library's consensus can end with
BackendScores == {6000, 8000, 10000}

\* The final match and overall score of one library for one athlete: None, or
\* the ID of the final match with its overall score.  fuzzymatch_3.py runs
\* the loop body of fuzzy_match2.py once with fuzzywuzzy and once with
\* RapidFuzz; fuzzywuzzy rounds a ratio to an integer and RapidFuzz keeps the
\* float, so the two libraries can end with different records and scores.
BackendFinals ==
    {[Matched_ID |-> NoID, Overall_Score |-> NoScore]}
        \cup [Matched_ID : {1, 2}, Overall_Score : BackendScores]

\* the dict appended to results for the athlete at idx
ResultRow3(idx, fw, rf) ==
    [Athlete_Index    |-> idx,
     FW_Matched_ID    |-> fw.Matched_ID,
     FW_Overall_Score |-> fw.Overall_Score,
     RF_Matched_ID    |-> rf.Matched_ID,
     RF_Overall_Score |-> rf.Overall_Score]

\* pd.notnull of a score
NotNull(score) == score # NoScore

RECURSIVE SumOf(_)
SumOf(scores) ==
    IF scores = <<>> THEN 0 ELSE Head(scores) + SumOf(Tail(scores))

\* np.mean of a non-empty list of scores
Mean(scores) == SumOf(scores) \div Len(scores)

\* variant of avg_score that repeats the consensus of the two approaches:
\* the mean for the same ID, 0.9 * the higher score for different IDs
avg_score_Consensus(row) ==
    IF NotNull(row.FW_Overall_Score) /\ NotNull(row.RF_Overall_Score)
    THEN IF row.FW_Matched_ID = row.RF_Matched_ID
         THEN (row.FW_Overall_Score + row.RF_Overall_Score) \div 2
         ELSE IF row.FW_Overall_Score >= row.RF_Overall_Score
              THEN (row.FW_Overall_Score * 9) \div 10
              ELSE (row.RF_Overall_Score * 9) \div 10
    ELSE IF NotNull(row.FW_Overall_Score) THEN row.FW_Overall_Score
    ELSE row.RF_Overall_Score

\* the mean of the scores that are not null, nan if there is none
avg_score(row) ==
    LET scores ==
            (IF NotNull(row.FW_Overall_Score)
             THEN <<row.FW_Overall_Score>> ELSE <<>>)
            \o (IF NotNull(row.RF_Overall_Score)
                THEN <<row.RF_Overall_Score>> ELSE <<>>)
    IN  IF scores # <<>> THEN Mean(scores) ELSE NoScore

\* the confidence band of an Overall_Score, None for nan
get_confidence(score) ==
    IF score = NoScore THEN "None"
    ELSE IF score >= 9000 THEN "High"
    ELSE IF score >= 7000 THEN "Medium"
    ELSE "Low"

\* the counts of the summary report before they are computed
NoSummary ==
    [total_athletes |-> 0, high_count |-> 0, medium_count |-> 0,
     low_count |-> 0, perfect_count |-> 0]

---------------------------------------------------------------------------
(* app.py: the fetch tasks of fetch_all_competitors *)

\* asyncio.Semaphore(10)
SemaphoreValue == 10

\* athlete names; the query of load_athlete_names can give a name twice
Names == {"A", "B"}

\* Python's None as the result of a fetch
NoInfo == [none |-> TRUE]

\* a task that has no response yet
Unanswered == [raised |-> FALSE, status |-> 0, competitors |-> <<>>]

\* an item of searchCompetitors; its urlSlug is a string or JSON null
Competitor(urlSlug) == [aaAthleteId |-> 14201847, urlSlug |-> urlSlug]

\* What session.post can end with: an exception (no connection, the timeout
\* of 10 s), a status other than 200, or status 200 with a list of
\* competitors that is empty or has a first item, with or without urlSlug.
Responses ==
    {[raised |-> TRUE, status |-> 0, competitors |-> <<>>],
     [raised |-> FALSE, status |-> 500, competitors |-> <<>>],
     [raised |-> FALSE, status |-> 200, competitors |-> <<>>],
     [raised |-> FALSE, status |-> 200,
      competitors |-> <<Competitor("null")>>],
     [raised |-> FALSE, status |-> 200,
      competitors |-> <<Competitor("qatar/athlete")>>]}

\* the try block raises: the post raised, or the dict cannot be built since
\* "https://worldathletics.org/athletes/" + None is a TypeError
Raises(response) ==
    \/ response.raised
    \/ /\ response.status = 200
       /\ response.competitors # <<>>
       /\ response.competitors[1].urlSlug = "null"

\* the value fetch_competitor_info returns for a response
competitor_info(athlete_name, response) ==
    IF Raises(response) THEN NoInfo
    ELSE IF response.status = 200
         THEN IF response.competitors # <<>>
              THEN [athlete_name |-> athlete_name,
                    aaAthleteId  |-> response.competitors[1].aaAthleteId,
                    urlSlug      |-> response.competitors[1].urlSlug]
              ELSE NoInfo
         ELSE NoInfo

\* the coroutine fetch_competitor_info(session, name, ...) before it runs
NewTask(name) ==
    [athlete_name |-> name, at |-> "start", response |-> Unanswered,
     result |-> NoInfo]

\* the bag of the tasks of a list of names
RECURSIVE TasksOf(_)
TasksOf(names) ==
    IF names = <<>> THEN EmptyBag
    ELSE SetToBag({NewTask(Head(names))}) (+) TasksOf(Tail(names))

\* the bag with one task t replaced by t2
Move(bag, t, t2) == (bag (-) SetToBag({t})) (+) SetToBag({t2})

\* the tasks that are at a position
TasksAt(at) == {t \in BagToSet(tasks) : t.at = at}

\* variant of Locked that never blocks
Locked_Never(value) == FALSE

\* Semaphore.locked(): no permit is left
Locked(value) == value = 0

\* Semaphore.release() at the exit of "async with semaphore"
Release(value) == value + 1

\* lists of up to n names
NameLists(n) == UNION {[1..k -> Names] : k \in 0..n}

---------------------------------------------------------------------------
(* The script *)

Init ==
    /\ wa_codes_df = <<>>
    /\ wa_athletes_dict = <<>>
    /\ wa_names_list = <<>>
    /\ athlete_df = <<>>
    /\ results = <<>>
    /\ loc = NoLocals
    /\ wpos = 0
    /\ pc = "load"
    /\ results_df = <<>>
    /\ summary = NoSummary
    /\ pc3 = "match"
    /\ athlete_names = <<>>
    /\ tasks = EmptyBag
    /\ semaphore = SemaphoreValue
    /\ fetched = <<>>
    /\ progress = 0
    /\ pc4 = "call"

\* one iteration of the loop over wa_codes_df.iterrows()
LoadRow ==
    /\ pc = "load"
    /\ Len(wa_codes_df) < MaxPool
    /\ \E r \in WaRows :
         LET row == [Name |-> r.Name, ID |-> Len(wa_codes_df) + 1,
                     birthDate |-> r.birthDate]
         IN  /\ wa_codes_df' = Append(wa_codes_df, row)
             /\ wa_athletes_dict' =
                    DictSet(wa_athletes_dict,
                            [name |-> row.Name, ID |-> row.ID,
                             birthDate |-> WaBirthStr(row.birthDate)])
             /\ wa_names_list' = Append(wa_names_list, row.Name)
    /\ UNCHANGED <<athlete_df, results, loc, wpos, pc>>
    /\ UNCHANGED vars3
    /\ UNCHANGED vars4

\* the reference sheet has no more rows
EndLoad ==
    /\ pc = "load"
    /\ pc' = "match"
    /\ UNCHANGED <<wa_codes_df, wa_athletes_dict, wa_names_list, athlete_df,
                   results, loc, wpos>>
    /\ UNCHANGED vars3
    /\ UNCHANGED vars4

\* the locals of one iteration of the matching loop for the athlete at idx
MatchLocals(idx, athlete) ==
    LET name     == Full_Name(athlete)
        reversed == Full_Name_Reversed(athlete)
        birth    == RosterBirthStr(athlete.Birth_date)
        m1a == find_best_match_name_first(name, birth, wa_names_list,
                                          wa_athletes_dict)
        m1b == find_best_match_name_first(reversed, birth, wa_names_list,
                                          wa_athletes_dict)
        b1  == BestOfOrientations(m1a, m1b)
        m2a == find_best_match_birth_first(birth, name, wa_athletes_dict)
        m2b == find_best_match_birth_first(birth, reversed, wa_athletes_dict)
        b2  == BestOfOrientations(m2a, m2b)
        c   == Combine(b1, b2)
    IN  [idx |-> idx, Full_Name |-> name, Birth_date_str |-> birth,
         match1a |-> m1a, match1b |-> m1b, best_match1 |-> b1,
         match2a |-> m2a, match2b |-> m2b, best_match2 |-> b2,
         final_match |-> c.final_match, overall_score |-> c.overall_score]

\* the dict appended to results
ResultRow(l) ==
    [Athlete_Index      |-> l.idx,
     Athlete_Name       |-> l.Full_Name,
     Athlete_Birth_Date |-> l.Birth_date_str,
     A1_Matched_Name |-> IF IsMatch(l.best_match1)
                         THEN l.best_match1.Matched_Name ELSE NoName,
     A1_Matched_ID   |-> IF IsMatch(l.best_match1)
                         THEN l.best_match1.Matched_ID ELSE NoID,
     A1_Match_Score  |-> IF IsMatch(l.best_match1)
                         THEN l.best_match1.Combined_Match_Score ELSE NoScore,
     A2_Matched_Name |-> IF IsMatch(l.best_match2)
                         THEN l.best_match2.Matched_Name ELSE NoName,
     A2_Matched_ID   |-> IF IsMatch(l.best_match2)
                         THEN l.best_match2.Matched_ID ELSE NoID,
     A2_Match_Score  |-> IF IsMatch(l.best_match2)
                         THEN l.best_match2.Combined_Match_Score ELSE NoScore,
     Final_Matched_Name       |-> l.final_match.Matched_Name,
     Final_Matched_ID         |-> l.final_match.Matched_ID,
     Final_Matched_Birth_Date |-> l.final_match.Matched_Birth_Date,
     Overall_Match_Score      |-> l.overall_score]

\* one iteration of the matching loop: the next roster row has no WA_no
MatchAthlete ==
    /\ pc = "match"
    /\ Len(athlete_df) < MaxRoster
    /\ \E athlete \in RowsWithoutWa :
         LET l == MatchLocals(Len(athlete_df) + 1, athlete)
         IN  /\ athlete_df' = Append(athlete_df, athlete)
             /\ loc' = l
             /\ results' = IF IsMatch(l.final_match)
                           THEN Append(results, ResultRow(l))
                           ELSE results
    /\ UNCHANGED <<wa_codes_df, wa_athletes_dict, wa_names_list, wpos, pc>>
    /\ UNCHANGED vars3
    /\ UNCHANGED vars4

\* the next roster row has a WA_no: it is not in athletes_without_wa
SkipAthlete ==
    /\ pc = "match"
    /\ Len(athlete_df) < MaxRoster
    /\ \E athlete \in RowsWithWa : athlete_df' = Append(athlete_df, athlete)
    /\ UNCHANGED <<wa_codes_df, wa_athletes_dict, wa_names_list, results,
                   loc, wpos, pc>>
    /\ UNCHANGED vars3
    /\ UNCHANGED vars4

\* the roster has no more rows; lines 164-177 create the output columns
EndMatch ==
    /\ pc = "match"
    /\ athlete_df' = [k \in 1..Len(athlete_df) |->
                         athlete_df[k] @@ EmptyColumns]
    /\ pc' = "write"
    /\ UNCHANGED <<wa_codes_df, wa_athletes_dict, wa_names_list, results,
                   loc, wpos>>
    /\ UNCHANGED vars3
    /\ UNCHANGED vars4

\* the row of athlete_df after the write-back of one match of results_df
WrittenRow(row, match) ==
    [row EXCEPT
        !.WA_Matched_Name       = match.Final_Matched_Name,
        !.WA_Matched_Birth_Date = match.Final_Matched_Birth_Date,
        !.WA_Matched_ID         = match.Final_Matched_ID,
        !.WA_Match_Score        = match.Overall_Match_Score,
        !.A1_Match_Score        = match.A1_Match_Score,
        !.A2_Match_Score        = match.A2_Match_Score,
        !.WA_Match_Confidence   =
            IF match.Overall_Match_Score # NoScore
            THEN Confidence(match.Overall_Match_Score) ELSE @,
        !.WA_Recommended        =
            IF match.Overall_Match_Score # NoScore
            THEN Recommended(match.Overall_Match_Score) ELSE @]

\* variant of WriteBack that writes to the row at the result's position
WriteBack_ByPosition ==
    /\ pc = "write"
    /\ wpos < Len(results)
    /\ LET match == results[wpos + 1]
       IN  athlete_df' = [athlete_df EXCEPT ![wpos + 1] = WrittenRow(@, match)]
    /\ wpos' = wpos + 1
    /\ UNCHANGED <<wa_codes_df, wa_athletes_dict, wa_names_list, results,
                   loc, pc>>
    /\ UNCHANGED vars3
    /\ UNCHANGED vars4

\* one iteration of the loop over results_df.iterrows()
WriteBack ==
    /\ pc = "write"
    /\ wpos < Len(results)
    /\ LET match == results[wpos + 1]
           idx   == match.Athlete_Index
       IN  athlete_df' = [athlete_df EXCEPT ![idx] = WrittenRow(@, match)]
    /\ wpos' = wpos + 1
    /\ UNCHANGED <<wa_codes_df, wa_athletes_dict, wa_names_list, results,
                   loc, pc>>
    /\ UNCHANGED vars3
    /\ UNCHANGED vars4

\* WA_Recommended_ID of a row: its WA_Matched_ID under the mask, else None
RecommendedID(row) ==
    IF RecommendMask(row) THEN row.WA_Matched_ID ELSE NoID

\* lines 201-202: the column WA_Recommended_ID
RecommendIDs ==
    /\ pc = "write"
    /\ wpos = Len(results)
    /\ athlete_df' = [k \in 1..Len(athlete_df) |->
                         [athlete_df[k] EXCEPT
                             !.WA_Recommended_ID = RecommendedID(athlete_df[k])]]
    /\ pc' = "done"
    /\ UNCHANGED <<wa_codes_df, wa_athletes_dict, wa_names_list, results,
                   loc, wpos>>
    /\ UNCHANGED vars3
    /\ UNCHANGED vars4

Next ==
    \/ LoadRow
    \/ EndLoad
    \/ MatchAthlete
    \/ SkipAthlete
    \/ EndMatch
    \/ WriteBack
    \/ RecommendIDs

Spec == Init /\ [][Next]_vars

---------------------------------------------------------------------------
(* The script fuzzymatch_3.py from its matching loop on *)

\* one iteration of the matching loop: a result is appended for every
\* athlete without WA_no, whatever the two libraries found
AppendResult ==
    /\ pc3 = "match"
    /\ Len(results_df) < MaxResults
    /\ \E fw \in BackendFinals : \E rf \in BackendFinals :
           results_df' =
               Append(results_df, ResultRow3(Len(results_df) + 1, fw, rf))
    /\ UNCHANGED <<summary, pc3>>
    /\ UNCHANGED vars2
    /\ UNCHANGED vars4

\* results_df with the columns Overall_Score and Confidence
WithSummaryColumns(df) ==
    [k \in 1..Len(df) |->
        df[k] @@ [Overall_Score |-> avg_score(df[k]),
                  Confidence    |-> get_confidence(avg_score(df[k]))]]

\* the summary counts of results_df
SummaryCounts(df) ==
    [total_athletes |-> Len(df),
     high_count     |->
         Cardinality({k \in 1..Len(df) : df[k].Confidence = "High"}),
     medium_count   |->
         Cardinality({k \in 1..Len(df) : df[k].Confidence = "Medium"}),
     low_count      |->
         Cardinality({k \in 1..Len(df) : df[k].Confidence = "Low"}),
     perfect_count  |->
         Cardinality({k \in 1..Len(df) : df[k].Overall_Score = 10000})]

\* the loop is over: the summary columns and the counts of the report (with
\* no athlete without WA_no results_df has no column to compute them from)
SummaryReport ==
    /\ pc3 = "match"
    /\ results_df # <<>>
    /\ results_df' = WithSummaryColumns(results_df)
    /\ summary' = SummaryCounts(WithSummaryColumns(results_df))
    /\ pc3' = "done"
    /\ UNCHANGED vars2
    /\ UNCHANGED vars4

Next3 ==
    \/ AppendResult
    \/ SummaryReport

Spec3 == Init /\ [][Next3]_vars

---------------------------------------------------------------------------
(* app.py: fetch_all_competitors *)

\* fetch_all_competitors is called with a short list of names: results,
\* the semaphore and one coroutine per name
CreateTasks ==
    /\ pc4 = "call"
    /\ \E names \in NameLists(MaxNames) :
           /\ athlete_names' = names
           /\ tasks' = TasksOf(names)
    /\ semaphore' = SemaphoreValue
    /\ fetched' = <<>>
    /\ progress' = 0
    /\ pc4' = "loop"
    /\ UNCHANGED vars2
    /\ UNCHANGED vars3

\* the lists of names of CreateBurst: one name, more often than the
\* semaphore has permits
BurstLists == {[k \in 1..MaxBurst |-> "A"]}

\* fetch_all_competitors is called with a long list of names
CreateBurst ==
    /\ pc4 = "call"
    /\ \E names \in BurstLists :
           /\ athlete_names' = names
           /\ tasks' = TasksOf(names)
    /\ semaphore' = SemaphoreValue
    /\ fetched' = <<>>
    /\ progress' = 0
    /\ pc4' = "loop"
    /\ UNCHANGED vars2
    /\ UNCHANGED vars3

\* a task enters "async with semaphore" and sends its post
Acquire ==
    /\ pc4 = "loop"
    /\ ~Locked(semaphore)
    /\ \E t \in TasksAt("start") :
           tasks' = Move(tasks, t, [t EXCEPT !.at = "post"])
    /\ semaphore' = semaphore - 1
    /\ UNCHANGED <<athlete_names, fetched, progress, pc4>>
    /\ UNCHANGED vars2
    /\ UNCHANGED vars3

\* a task leaves "async with semaphore" with the result of a response
Exit(t, response) ==
    /\ pc4 = "loop"
    /\ tasks' = Move(tasks, t,
                     [t EXCEPT !.at = "done", !.response = response,
                               !.result = competitor_info(t.athlete_name,
                                                          response)])
    /\ semaphore' = Release(semaphore)
    /\ UNCHANGED <<athlete_names, fetched, progress, pc4>>
    /\ UNCHANGED vars2
    /\ UNCHANGED vars3

\* status 200 with a competitor: the task returns the dict
ReturnCompetitor ==
    \E t \in TasksAt("post") : \E r \in Responses :
        /\ ~Raises(r) /\ r.status = 200 /\ r.competitors # <<>>
        /\ Exit(t, r)

\* status 200 with an empty list: the task returns None
ReturnNoCompetitor ==
    \E t \in TasksAt("post") : \E r \in Responses :
        /\ ~Raises(r) /\ r.status = 200 /\ r.competitors = <<>>
        /\ Exit(t, r)

\* a status other than 200: the task returns None
ReturnHttpError ==
    \E t \in TasksAt("post") : \E r \in Responses :
        /\ ~Raises(r) /\ r.status # 200
        /\ Exit(t, r)

\* an exception in the try block: the task returns None
ReturnException ==
    \E t \in TasksAt("post") : \E r \in Responses :
        /\ Raises(r)
        /\ Exit(t, r)

\* variant of AwaitNext that advances the progress for a result only
AwaitNext_InsideIf ==
    /\ pc4 = "loop"
    /\ \E t \in TasksAt("done") :
           /\ tasks' = Move(tasks, t, [t EXCEPT !.at = "awaited"])
           /\ fetched' = IF t.result # NoInfo
                         THEN Append(fetched, t.result) ELSE fetched
           /\ progress' = IF t.result # NoInfo THEN progress + 1 ELSE progress
    /\ UNCHANGED <<athlete_names, semaphore, pc4>>
    /\ UNCHANGED vars2
    /\ UNCHANGED vars3

\* one iteration of the loop over asyncio.as_completed(tasks)
AwaitNext ==
    /\ pc4 = "loop"
    /\ \E t \in TasksAt("done") :
           /\ tasks' = Move(tasks, t, [t EXCEPT !.at = "awaited"])
           /\ fetched' = IF t.result # NoInfo
                         THEN Append(fetched, t.result) ELSE fetched
    /\ progress' = progress + 1
    /\ UNCHANGED <<athlete_names, semaphore, pc4>>
    /\ UNCHANGED vars2
    /\ UNCHANGED vars3

\* every task has been awaited: return results
ReturnResults ==
    /\ pc4 = "loop"
    /\ \A t \in BagToSet(tasks) : t.at = "awaited"
    /\ pc4' = "returned"
    /\ UNCHANGED <<athlete_names, tasks, semaphore, fetched, progress>>
    /\ UNCHANGED vars2
    /\ UNCHANGED vars3

NextBurst ==
    \/ CreateBurst
    \/ Acquire
    \/ ReturnCompetitor
    \/ ReturnNoCompetitor
    \/ ReturnHttpError
    \/ ReturnException
    \/ AwaitNext
    \/ ReturnResults

SpecBurst == Init /\ [][NextBurst]_vars

NextFetch ==
    \/ CreateTasks
    \/ Acquire
    \/ ReturnCompetitor
    \/ ReturnNoCompetitor
    \/ ReturnHttpError
    \/ ReturnException
    \/ AwaitNext
    \/ ReturnResults

\* The event loop runs every task that can run, and every post ends within
\* its timeout of 10 s with a response or an exception.
FairSpecFetch ==
    /\ Init /\ [][NextFetch]_vars
    /\ WF_vars(Acquire)
    /\ WF_vars(ReturnCompetitor \/ ReturnNoCompetitor
               \/ ReturnHttpError \/ ReturnException)
    /\ WF_vars(AwaitNext)
    /\ WF_vars(ReturnResults)

---------------------------------------------------------------------------
(* Properties *)

\* the matching loop has just run an iteration: loc holds its locals
Matched == pc = "match" /\ loc.idx > 0

\* a birth-date string that is a date (neither None nor nan)
IsDate(d) == d # "None" /\ d # "NaN"

\* the matches of the name-first evaluations of the last iteration
NameFirstMatches == {m \in {loc.match1a, loc.match1b} : IsMatch(m)}

\* the matches of the birth-first evaluations of the last iteration
BirthFirstMatches == {m \in {loc.match2a, loc.match2b} : IsMatch(m)}

\* reference row j equals roster row k in name (either orientation) and in
\* birth date, which is present
ExactRow(k, j) ==
    /\ WithoutWa(athlete_df[k])
    /\ \/ Full_Name(athlete_df[k]) = wa_codes_df[j].Name
       \/ Full_Name_Reversed(athlete_df[k]) = wa_codes_df[j].Name
    /\ athlete_df[k].Birth_date # "NaT"
    /\ athlete_df[k].Birth_date = wa_codes_df[j].birthDate

\* C1: when the script is done, a roster row that equals exactly one
\* reference row in name (either orientation) and in a present birth date has
\* score 100, band High, recommended true and that row's ID as recommended ID.
C1_ExactMatchIdentity ==
    pc = "done" =>
        \A k \in 1..Len(athlete_df) : \A j \in 1..Len(wa_codes_df) :
            (/\ ExactRow(k, j)
             /\ \A j2 \in 1..Len(wa_codes_df) : ExactRow(k, j2) => j2 = j)
            => /\ athlete_df[k].WA_Match_Score = 10000
               /\ athlete_df[k].WA_Match_Confidence = "High"
               /\ athlete_df[k].WA_Recommended = TRUE
               /\ athlete_df[k].WA_Recommended_ID = wa_codes_df[j].ID

\* the combined score is 0.7 * name score + 0.3 * birth-date score
NameWeighted(m) ==
    m.Combined_Match_Score
        = 70 * m.Name_Match_Score + 30 * m.Birth_Date_Match_Score

\* the combined score is 0.3 * name score + 0.7 * birth-date score
BirthWeighted(m) ==
    m.Combined_Match_Score
        = 30 * m.Name_Match_Score + 70 * m.Birth_Date_Match_Score

\* C2 as stated: every match of either approach whose two birth dates are
\* present has combined score 0.7 * name score + 0.3 * birth-date score.
C2_NameWeightEverywhere ==
    Matched =>
        \A m \in NameFirstMatches \cup BirthFirstMatches :
            (IsDate(loc.Birth_date_str) /\ IsDate(m.Matched_Birth_Date))
            => NameWeighted(m)

\* C2 amended: a name-first match whose two birth dates are present has
\* combined score 0.7 * name + 0.3 * birth; a birth-first match has birth
\* score 100 and combined score 0.3 * name + 0.7 * birth.
C2_WeightsPerApproach ==
    Matched =>
        /\ \A m \in NameFirstMatches :
               (IsDate(loc.Birth_date_str) /\ IsDate(m.Matched_Birth_Date))
               => NameWeighted(m)
        /\ \A m \in BirthFirstMatches :
               m.Birth_Date_Match_Score = 100 /\ BirthWeighted(m)

\* C2 witness: both approaches returned a match for a dated query, the
\* birth-first one with a name score below 100 and a dated record.
C2_Witness ==
    /\ Matched
    /\ IsDate(loc.Birth_date_str)
    /\ \E m \in NameFirstMatches :
           IsDate(m.Matched_Birth_Date) /\ m.Birth_Date_Match_Score = 100
           /\ m.Name_Match_Score < 100
    /\ \E m \in BirthFirstMatches :
           m.Name_Match_Score < 100 /\ m.Name_Match_Score > 0

\* C3: every match of either approach where the query's birth date or the
\* matched record's birth date is absent has combined score = name score.
C3_MissingDateIsNameOnly ==
    Matched =>
        \A m \in NameFirstMatches \cup BirthFirstMatches :
            (~IsDate(loc.Birth_date_str) \/ ~IsDate(m.Matched_Birth_Date))
            => m.Combined_Match_Score = 100 * m.Name_Match_Score

\* no reference row has the birth-date string d
NoRowWithDate(d) ==
    \A j \in 1..Len(wa_codes_df) :
        ~PyEq(WaBirthStr(wa_codes_df[j].birthDate), d)

\* the best candidate of the full pool by name: the first of the highest
\* name score
IsNameBestOfPool(m) ==
    /\ \E j \in 1..Len(wa_codes_df) : wa_codes_df[j].Name = m.Matched_Name
    /\ \A j \in 1..Len(wa_codes_df) :
           token_sort_ratio(loc.Full_Name, wa_codes_df[j].Name)
               <= m.Name_Match_Score

\* C4 as stated: with a non-empty pool the birth-first approach returns a
\* candidate for every query; if no reference row has the query's birth date
\* it is the best candidate of the full pool by name, with birth score 0.
C4_FallbackNonEmpty ==
    (Matched /\ wa_codes_df # <<>>) =>
        /\ IsMatch(loc.best_match2)
        /\ NoRowWithDate(loc.Birth_date_str) =>
               /\ IsNameBestOfPool(loc.best_match2)
               /\ loc.best_match2.Birth_Date_Match_Score = 0

\* C4 amended: if no reference row has the query's birth date, the
\* birth-first approach returns None in both orientations (no fallback to
\* the unfiltered pool); if an item of wa_athletes_dict has it, it returns a
\* candidate, and every candidate it returns has the query's birth date and
\* birth score 100.
C4_NoFallback ==
    Matched =>
        /\ NoRowWithDate(loc.Birth_date_str) =>
               /\ loc.match2a = NoMatch
               /\ loc.match2b = NoMatch
               /\ loc.best_match2 = NoMatch
        /\ (\E k \in 1..Len(wa_athletes_dict) :
                PyEq(wa_athletes_dict[k].birthDate, loc.Birth_date_str))
               => IsMatch(loc.match2a) /\ IsMatch(loc.match2b)
        /\ \A m \in BirthFirstMatches :
               /\ m.Matched_Birth_Date = loc.Birth_date_str
               /\ m.Birth_Date_Match_Score = 100

\* C4 witness: a dated query, a non-empty pool, no row with that date, and
\* the birth-first approach returned None.
C4_Witness ==
    /\ Matched
    /\ wa_codes_df # <<>>
    /\ IsDate(loc.Birth_date_str)
    /\ NoRowWithDate(loc.Birth_date_str)
    /\ loc.best_match2 = NoMatch

\* both approaches have a match in the last iteration
BothPresent == Matched /\ IsMatch(loc.best_match1) /\ IsMatch(loc.best_match2)

Agree == BothPresent /\ loc.best_match1.Matched_ID = loc.best_match2.Matched_ID

Disagree == BothPresent /\ loc.best_match1.Matched_ID # loc.best_match2.Matched_ID

Score1 == loc.best_match1.Combined_Match_Score

Score2 == loc.best_match2.Combined_Match_Score

Min(a, b) == IF a <= b THEN a ELSE b

Max(a, b) == IF a >= b THEN a ELSE b

\* the result appended for the last iteration
LastResult == results[Len(results)]

\* C5: when both approaches have a match with the same ID, the final ID is
\* that ID and the overall score is the mean of the two combined scores,
\* hence between the smaller and the larger of them.
C5_AgreementAverage ==
    Agree =>
        /\ loc.final_match.Matched_ID = loc.best_match2.Matched_ID
        /\ 2 * loc.overall_score = Score1 + Score2
        /\ Min(Score1, Score2) <= loc.overall_score
        /\ loc.overall_score <= Max(Score1, Score2)
        /\ LastResult.Athlete_Index = loc.idx
        /\ LastResult.Final_Matched_ID = loc.best_match1.Matched_ID
        /\ LastResult.Overall_Match_Score = loc.overall_score

\* C5 witness: the approaches agree on the ID with different scores.
C5_Witness == Agree /\ Score1 # Score2

\* a match dict with a given ID and combined score (hundredths)
MatchOf(id, score) ==
    [Matched_Name |-> <<id>>, Matched_ID |-> id, Matched_Birth_Date |-> D1,
     Name_Match_Score |-> 0, Birth_Date_Match_Score |-> 0,
     Combined_Match_Score |-> score]

\* the example of C6: approach 1 has ID 5 with 92, approach 2 ID 9 with 88
Example6 == Combine(MatchOf(5, 9200), MatchOf(9, 8800))

\* C6: when both approaches have a match with different IDs, the overall
\* score is exactly 0.9 * the larger combined score and the final match (ID,
\* name, birth date) is a match that has that larger score; scores 92 (ID 5)
\* and 88 (ID 9) give ID 5, 82.8, Medium, recommended, no recommended ID.
C6_DisagreementPenalty ==
    /\ Disagree =>
           /\ 10 * loc.overall_score = 9 * Max(Score1, Score2)
           /\ loc.final_match \in {loc.best_match1, loc.best_match2}
           /\ loc.final_match.Combined_Match_Score = Max(Score1, Score2)
           /\ LastResult.Athlete_Index = loc.idx
           /\ LastResult.Final_Matched_ID = loc.final_match.Matched_ID
           /\ LastResult.Final_Matched_Name = loc.final_match.Matched_Name
           /\ LastResult.Final_Matched_Birth_Date
                  = loc.final_match.Matched_Birth_Date
           /\ LastResult.Overall_Match_Score = loc.overall_score
    /\ Example6.final_match.Matched_ID = 5
    /\ Example6.overall_score = 8280
    /\ Confidence(Example6.overall_score) = "Medium"
    /\ Recommended(Example6.overall_score) = TRUE
    /\ RecommendedID([WA_Match_Score |-> Example6.overall_score,
                      WA_Matched_ID  |-> 5]) = NoID

\* C6 witness: the approaches disagree, approach 2 with the lower score.
C6_Witness == Disagree /\ Score1 > Score2

\* exactly one approach has a match in the last iteration
ExactlyOne == Matched /\ (IsMatch(loc.best_match1) # IsMatch(loc.best_match2))

\* the one match of the two approaches
TheOne == IF IsMatch(loc.best_match1) THEN loc.best_match1 ELSE loc.best_match2

\* C7: when exactly one approach has a match, the final match is that match
\* unchanged and the overall score is its combined score, without penalty.
C7_PassThrough ==
    ExactlyOne =>
        /\ loc.final_match = TheOne
        /\ loc.overall_score = TheOne.Combined_Match_Score
        /\ LastResult.Athlete_Index = loc.idx
        /\ LastResult.Final_Matched_ID = TheOne.Matched_ID
        /\ LastResult.Overall_Match_Score = TheOne.Combined_Match_Score

\* C7 witness: only the name-first approach has a match, of positive score.
C7_Witness ==
    /\ ExactlyOne
    /\ IsMatch(loc.best_match1)
    /\ loc.overall_score > 0

\* the bands that apply to a score s (hundredths) by the stated thresholds
BandsOf(s) ==
    {b \in {"High", "Medium", "Low"} :
        \/ b = "High" /\ s >= 9000
        \/ b = "Medium" /\ 7000 <= s /\ s < 9000
        \/ b = "Low" /\ s < 7000}

\* the band and the recommendation the code gives a score are the stated ones
BandOk(s) ==
    /\ BandsOf(s) = {Confidence(s)}
    /\ Recommended(s) = (s >= 7000)
    /\ Recommended(s) = (Confidence(s) \in {"High", "Medium"})

\* the rows of athlete_df that a result has been written to
WrittenRows ==
    IF pc \in {"write", "done"}
    THEN {k \in 1..Len(athlete_df) :
             \E w \in 1..wpos : results[w].Athlete_Index = k}
    ELSE {}

\* C8: every score in [0, 100] gets exactly one band, High iff >= 90, Medium
\* iff in [70, 90), Low iff < 70, and is recommended iff >= 70; every written
\* row of athlete_df carries the band and the recommendation of its score.
C8_BandPartition ==
    /\ (pc = "load" /\ wa_codes_df = <<>>) => \A s \in 0..10000 : BandOk(s)
    /\ \A k \in WrittenRows :
           /\ athlete_df[k].WA_Match_Score \in 0..10000
           /\ BandOk(athlete_df[k].WA_Match_Score)
           /\ athlete_df[k].WA_Match_Confidence
                  = Confidence(athlete_df[k].WA_Match_Score)
           /\ BandsOf(athlete_df[k].WA_Match_Score)
                  = {athlete_df[k].WA_Match_Confidence}
           /\ athlete_df[k].WA_Recommended
                  = (athlete_df[k].WA_Match_Score >= 7000)

\* C8 witness: a written row with score exactly 90 and band High.
C8_Witness ==
    \E k \in WrittenRows :
        /\ athlete_df[k].WA_Match_Score = 9000
        /\ athlete_df[k].WA_Match_Confidence = "High"

\* C9: when the script is done, a row has a recommended ID iff its score is
\* >= 90, and then it is the row's matched ID; a row with score in [70, 90)
\* is recommended without recommended ID; a recommended ID implies
\* recommended.
C9_TwoTierGate ==
    pc = "done" =>
        \A k \in 1..Len(athlete_df) :
            LET row == athlete_df[k]
            IN  /\ (row.WA_Recommended_ID # NoID)
                       = (row.WA_Match_Score # NoScore
                          /\ row.WA_Match_Score >= 9000)
                /\ row.WA_Recommended_ID # NoID
                       => row.WA_Recommended_ID = row.WA_Matched_ID
                /\ (row.WA_Match_Score >= 7000 /\ row.WA_Match_Score < 9000)
                       => (row.WA_Recommended /\ row.WA_Recommended_ID = NoID)
                /\ row.WA_Recommended_ID # NoID => row.WA_Recommended

\* C9 witness: the script is done with a Medium row (recommended, without
\* recommended ID) and a High row with recommended ID.
C9_Witness ==
    /\ pc = "done"
    /\ \E k \in 1..Len(athlete_df) :
           /\ athlete_df[k].WA_Match_Confidence = "Medium"
           /\ athlete_df[k].WA_Recommended
           /\ athlete_df[k].WA_Recommended_ID = NoID
    /\ \E k \in 1..Len(athlete_df) :
           /\ athlete_df[k].WA_Match_Confidence = "High"
           /\ athlete_df[k].WA_Recommended_ID # NoID

\* C10 as stated: an approach returns None only when the pool is empty.
C10_NoneOnlyIfPoolEmpty ==
    (Matched /\ wa_codes_df # <<>>) =>
        /\ IsMatch(loc.best_match1)
        /\ IsMatch(loc.best_match2)

\* the combined scores of the name-first candidates of a query name
NameFirstScores(name) ==
    LET matches == extract(name, wa_names_list)
    IN  {CombinedNameFirst(matches[k].score, loc.Birth_date_str,
                           DictGet(wa_athletes_dict, matches[k].name).birthDate)
            : k \in 1..Len(matches)}

\* C10 amended: the name-first approach returns None exactly when none of
\* its (at most 5) candidates has a combined score above 0, which includes
\* the empty pool; the birth-first approach returns None exactly when no item
\* of wa_athletes_dict has the query's birth date; a returned match has a
\* combined score above 0.
C10_NoneConditions ==
    Matched =>
        /\ (loc.match1a = NoMatch)
               = (\A c \in NameFirstScores(loc.Full_Name) : c = 0)
        /\ (loc.best_match1 = NoMatch)
               = (\A c \in NameFirstScores(loc.Full_Name) : c = 0)
        /\ (loc.best_match2 = NoMatch)
               = (\A k \in 1..Len(wa_athletes_dict) :
                     ~PyEq(wa_athletes_dict[k].birthDate, loc.Birth_date_str))
        /\ \A m \in NameFirstMatches \cup BirthFirstMatches :
               m.Combined_Match_Score > 0

\* C10 witness: the pool is not empty, the candidates of the name-first
\* approach all have name score 0, and it returned None.
C10_Witness ==
    /\ Matched
    /\ wa_codes_df # <<>>
    /\ \A j \in 1..Len(wa_codes_df) :
           token_sort_ratio(loc.Full_Name, wa_codes_df[j].Name) = 0
    /\ loc.best_match1 = NoMatch


\* best is the stated choice between the match a of the given-family
\* orientation and the match b of the family-given orientation
OrientationChoiceOk(a, b, best) ==
    /\ (IsMatch(a) /\ IsMatch(b)
        /\ b.Combined_Match_Score > a.Combined_Match_Score) => best = b
    /\ (IsMatch(a) /\ IsMatch(b)
        /\ a.Combined_Match_Score > b.Combined_Match_Score) => best = a
    /\ (IsMatch(a) /\ IsMatch(b)
        /\ a.Combined_Match_Score = b.Combined_Match_Score) => best = a
    /\ (IsMatch(a) /\ ~IsMatch(b)) => best = a
    /\ (~IsMatch(a) /\ IsMatch(b)) => best = b
    /\ (~IsMatch(a) /\ ~IsMatch(b)) => best = NoMatch

\* results of the two orientations that differ in record and in score: the
\* given-family one has ID 1, the family-given one ID 2
OrientationSamples ==
    ({NoMatch} \cup {MatchOf(1, s) : s \in {3500, 7000, 10000}})
        \X ({NoMatch} \cup {MatchOf(2, s) : s \in {3500, 7000, 10000}})

\* C11: per approach the kept match is the orientation with the strictly
\* higher combined score; on equal scores it is the given-family one; when
\* only one orientation has a match it is that one.  The scorer sorts the
\* tokens, so in the script the two orientations always have equal scores;
\* the choice is checked on sample results of different scores as well.
C11_OrientationChoice ==
    /\ Matched =>
           /\ OrientationChoiceOk(loc.match1a, loc.match1b, loc.best_match1)
           /\ OrientationChoiceOk(loc.match2a, loc.match2b, loc.best_match2)
    /\ (pc = "load" /\ wa_codes_df = <<>>) =>
           \A p \in OrientationSamples :
               OrientationChoiceOk(p[1], p[2], BestOfOrientations(p[1], p[2]))

\* C11 witness: both orientations of both approaches have a match, with
\* equal scores, and the given-family ones are kept.
C11_Witness ==
    /\ Matched
    /\ IsMatch(loc.match1a) /\ IsMatch(loc.match1b)
    /\ loc.match1a.Combined_Match_Score = loc.match1b.Combined_Match_Score
    /\ loc.best_match1 = loc.match1a
    /\ IsMatch(loc.match2a) /\ IsMatch(loc.match2b)
    /\ loc.best_match2 = loc.match2a
    /\ loc.best_match1.Matched_ID # loc.best_match2.Matched_ID


\* the rows of athlete_df without WA_no that have no result in results
UnmatchedRows ==
    {k \in 1..Len(athlete_df) :
        /\ WithoutWa(athlete_df[k])
        /\ \A w \in 1..Len(results) : results[w].Athlete_Index # k}

\* the output columns of a row are all None, WA_Recommended False
NoOutput(row) ==
    /\ row.WA_Matched_Name = NoName
    /\ row.WA_Matched_Birth_Date = "None"
    /\ row.WA_Matched_ID = NoID
    /\ row.WA_Match_Score = NoScore
    /\ row.WA_Match_Confidence = "None"
    /\ row.WA_Recommended = FALSE
    /\ row.WA_Recommended_ID = NoID

\* C13: when neither approach has a match for an athlete (as for every
\* athlete when the reference sheet is empty) there is no final match, no
\* score and no result for the athlete; every result has a final ID; and in
\* the output the athlete's row is there with no matched name, ID, score and
\* band, WA_Recommended False and no recommended ID.
C13_NoResolutionRows ==
    /\ (Matched /\ wa_codes_df = <<>>)
           => (loc.best_match1 = NoMatch /\ loc.best_match2 = NoMatch)
    /\ (Matched /\ loc.best_match1 = NoMatch /\ loc.best_match2 = NoMatch)
           => /\ loc.final_match = NoMatch
              /\ loc.overall_score = NoScore
              /\ loc.idx \in UnmatchedRows
    /\ \A w \in 1..Len(results) :
           /\ results[w].Final_Matched_ID # NoID
           /\ results[w].Overall_Match_Score # NoScore
    /\ pc \in {"write", "done"}
           => \A k \in UnmatchedRows : NoOutput(athlete_df[k])

\* C13 witness: the script is done with an empty reference sheet and an
\* athlete without WA_no, whose row has no output.
C13_Witness ==
    /\ pc = "done"
    /\ wa_codes_df = <<>>
    /\ \E k \in UnmatchedRows : NoOutput(athlete_df[k])

\* a score in hundredths that lies in [0, 100]
InRange(s) == s \in 0..10000

\* the name scores the scorer can return
NameScores == 0..100

\* the overall scores of Combine for two matches of combined scores s1, s2
\* with the same ID, with different IDs, and for each of them alone
CombineScores(s1, s2) ==
    {Combine(MatchOf(1, s1), MatchOf(1, s2)).overall_score,
     Combine(MatchOf(1, s1), MatchOf(2, s2)).overall_score,
     Combine(MatchOf(1, s1), NoMatch).overall_score,
     Combine(NoMatch, MatchOf(2, s2)).overall_score}

\* C14: for every name score in [0, 100] the combined score of either
\* approach is in [0, 100], and the overall score of the consensus (mean,
\* 0.9 * maximum, pass-through) of combined scores in [0, 100] is in
\* [0, 100]; so is every combined and overall score the script computes.
C14_ScoreRange ==
    /\ (pc = "load" /\ wa_codes_df = <<>>) =>
           /\ \A n \in NameScores :
                  /\ InRange(CombinedBirthFirst(n))
                  /\ \A a \in {D1, "NaN"} : \A w \in {D1, D2, "None"} :
                         InRange(CombinedNameFirst(n, a, w))
           /\ \A n1 \in NameScores : \A n2 \in NameScores :
                  \A s \in CombineScores(100 * n1, 100 * n2) : InRange(s)
    /\ Matched =>
           /\ \A m \in NameFirstMatches \cup BirthFirstMatches :
                  /\ m.Name_Match_Score \in NameScores
                  /\ InRange(m.Combined_Match_Score)
           /\ IsMatch(loc.final_match) => InRange(loc.overall_score)
    /\ \A w \in 1..Len(results) : InRange(results[w].Overall_Match_Score)
    /\ \A k \in WrittenRows : InRange(athlete_df[k].WA_Match_Score)

\* C14 witness: an iteration where both approaches have the highest combined
\* score 100 for the same record and the overall score is their mean 100, at
\* the upper end of the range.
C14_Witness ==
    /\ Agree
    /\ Score1 = 10000
    /\ Score2 = 10000
    /\ loc.overall_score = 10000

\* the query's birth date and the matched record's are present and equal
SameBirthDate(m) ==
    /\ IsDate(loc.Birth_date_str)
    /\ IsDate(m.Matched_Birth_Date)
    /\ m.Matched_Birth_Date = loc.Birth_date_str

\* C15: in every match of either approach the birth-date score is 0 or 100,
\* and 100 exactly when the query's birth date and the matched record's are
\* both present and equal; a birth-first match is an item of wa_athletes_dict
\* that passed the filter on the query's birth date, which is a date.
C15_AttributeScore ==
    Matched =>
        /\ \A m \in NameFirstMatches \cup BirthFirstMatches :
               /\ m.Birth_Date_Match_Score \in {0, 100}
               /\ (m.Birth_Date_Match_Score = 100) = SameBirthDate(m)
        /\ \A m \in BirthFirstMatches :
               /\ m.Birth_Date_Match_Score = 100
               /\ IsDate(loc.Birth_date_str)
               /\ \E k \in 1..Len(wa_athletes_dict) :
                      /\ wa_athletes_dict[k].name = m.Matched_Name
                      /\ wa_athletes_dict[k].ID = m.Matched_ID
                      /\ wa_athletes_dict[k].birthDate = loc.Birth_date_str

\* C15 witness: the name-first match has a birth date other than the
\* query's and birth-date score 0, the birth-first match has score 100.
C15_Witness ==
    /\ Matched
    /\ IsDate(loc.Birth_date_str)
    /\ \E m \in NameFirstMatches :
           IsDate(m.Matched_Birth_Date) /\ m.Birth_Date_Match_Score = 0
    /\ \E m \in BirthFirstMatches : m.Birth_Date_Match_Score = 100

\* the match m reports the name, ID and birth date of reference row j
IsRow(m, j) ==
    /\ m.Matched_Name = wa_codes_df[j].Name
    /\ m.Matched_ID = wa_codes_df[j].ID
    /\ m.Matched_Birth_Date = WaBirthStr(wa_codes_df[j].birthDate)

\* C16: also when reference rows share a name, the ID and birth date of
\* every match are those of one single reference row, every reference row
\* is in wa_athletes_dict with its own ID and birth date (the birth-date
\* filter sees it), and an athlete equal in name and in a present birth date
\* to exactly one reference row, which shares its name with another row,
\* gets that row's ID as final ID.
C16_NamesakesKept ==
    Matched =>
        /\ \A m \in NameFirstMatches \cup BirthFirstMatches :
               \E j \in 1..Len(wa_codes_df) : IsRow(m, j)
        /\ \A j \in 1..Len(wa_codes_df) :
               \E k \in 1..Len(wa_athletes_dict) :
                   /\ wa_athletes_dict[k].name = wa_codes_df[j].Name
                   /\ wa_athletes_dict[k].ID = wa_codes_df[j].ID
                   /\ wa_athletes_dict[k].birthDate
                          = WaBirthStr(wa_codes_df[j].birthDate)
        /\ \A j \in 1..Len(wa_codes_df) :
               (/\ ExactRow(loc.idx, j)
                /\ \A j2 \in 1..Len(wa_codes_df) :
                       ExactRow(loc.idx, j2) => j2 = j
                /\ \E j2 \in 1..Len(wa_codes_df) :
                       j2 # j /\ wa_codes_df[j2].Name = wa_codes_df[j].Name)
               => /\ IsMatch(loc.final_match)
                  /\ loc.final_match.Matched_ID = wa_codes_df[j].ID

\* the result w was made for the roster row of its Athlete_Index
OwnIndex(w) ==
    LET idx == results[w].Athlete_Index
    IN  /\ idx \in 1..Len(athlete_df)
        /\ WithoutWa(athlete_df[idx])
        /\ results[w].Athlete_Name = Full_Name(athlete_df[idx])
        /\ results[w].Athlete_Birth_Date
               = RosterBirthStr(athlete_df[idx].Birth_date)

\* the output columns of row k are those of result w
WrittenFrom(k, w) ==
    /\ athlete_df[k].WA_Matched_Name = results[w].Final_Matched_Name
    /\ athlete_df[k].WA_Matched_ID = results[w].Final_Matched_ID
    /\ athlete_df[k].WA_Matched_Birth_Date
           = results[w].Final_Matched_Birth_Date
    /\ athlete_df[k].WA_Match_Score = results[w].Overall_Match_Score

\* C17: the results are in the order of the roster rows, at most one per
\* row (their Athlete_Index increases strictly), each made for the row of
\* its Athlete_Index; during and after the write-back, a row that a result
\* has been written to carries the result of its own index, and every other
\* row has no output.
C17_OutputOrder ==
    /\ \A v \in 1..Len(results) : \A w \in 1..Len(results) :
           v < w => results[v].Athlete_Index < results[w].Athlete_Index
    /\ \A w \in 1..Len(results) : OwnIndex(w)
    /\ pc \in {"write", "done"} =>
           \A k \in 1..Len(athlete_df) :
               IF k \in WrittenRows
               THEN \E w \in 1..wpos :
                        results[w].Athlete_Index = k /\ WrittenFrom(k, w)
               ELSE NoOutput(athlete_df[k])

\* C17 witness: the script is done; the first roster row has a WA_no, so the
\* first result belongs to the second row and has been written there.
C17_Witness ==
    /\ pc = "done"
    /\ Len(athlete_df) = 2
    /\ ~WithoutWa(athlete_df[1])
    /\ Len(results) = 1
    /\ results[1].Athlete_Index = 2
    /\ WrittenFrom(2, 1)
    /\ NoOutput(athlete_df[1])

\* the query's name in the family-given order
ReversedName == <<loc.Full_Name[2], loc.Full_Name[1]>>

\* reference row j has the query's two tokens in the swapped order
SwapRow(j) ==
    /\ loc.Full_Name[1] # loc.Full_Name[2]
    /\ wa_codes_df[j].Name = ReversedName

\* C19 as stated: when a reference row's name is the exact token swap of the
\* query, both evaluations of the name-first approach return that row's ID,
\* and so does every evaluation of the birth-first approach that returns a
\* match.
C19_SwapSelected ==
    Matched =>
        \A j \in 1..Len(wa_codes_df) :
            SwapRow(j) =>
                /\ IsMatch(loc.match1a)
                /\ loc.match1a.Matched_ID = wa_codes_df[j].ID
                /\ IsMatch(loc.match1b)
                /\ loc.match1b.Matched_ID = wa_codes_df[j].ID
                /\ \A m \in BirthFirstMatches :
                       m.Matched_ID = wa_codes_df[j].ID

\* the name-first combined score of item k of wa_athletes_dict for the query
NameFirstScoreOf(k) ==
    CombinedNameFirst(
        token_sort_ratio(loc.Full_Name, wa_athletes_dict[k].name),
        loc.Birth_date_str, wa_athletes_dict[k].birthDate)

\* item k of wa_athletes_dict is a candidate of the name-first approach
IsCandidate(k) ==
    LET matches == extract(loc.Full_Name, wa_names_list)
    IN  \E i \in 1..Len(matches) : matches[i].name = wa_athletes_dict[k].name

\* C19 amended: the two orientations of an approach return the same result
\* (the same match, or both None); a reference name that is the exact token
\* swap of the query has name score 100 in both orientations, and then the
\* name-first approach returns a match of combined score >= 70; that match
\* is the swapped-name row whenever the row is in wa_athletes_dict under its
\* own ID, is a candidate, and has a combined score above that of every
\* other item.
C19_SameSelection ==
    Matched =>
        /\ loc.match1a = loc.match1b
        /\ loc.match2a = loc.match2b
        /\ \A j \in 1..Len(wa_codes_df) :
               SwapRow(j) =>
                   /\ token_sort_ratio(loc.Full_Name, wa_codes_df[j].Name)
                          = 100
                   /\ token_sort_ratio(ReversedName, wa_codes_df[j].Name)
                          = 100
                   /\ IsMatch(loc.match1a)
                   /\ loc.match1a.Combined_Match_Score >= 7000
                   /\ \A k \in 1..Len(wa_athletes_dict) :
                          (/\ wa_athletes_dict[k].ID = wa_codes_df[j].ID
                           /\ IsCandidate(k)
                           /\ \A k2 \in 1..Len(wa_athletes_dict) :
                                  k2 # k
                                  => NameFirstScoreOf(k2) < NameFirstScoreOf(k))
                          => loc.match1a.Matched_ID = wa_codes_df[j].ID

\* C19 witness: a reference row has the swapped name of the query, another
\* row scores below it, and all four evaluations return the swapped-name
\* row.
C19_Witness ==
    /\ Matched
    /\ Len(wa_athletes_dict) = 2
    /\ \E j \in 1..Len(wa_codes_df) :
           /\ SwapRow(j)
           /\ loc.match1a.Matched_ID = wa_codes_df[j].ID
           /\ loc.match1b.Matched_ID = wa_codes_df[j].ID
           /\ IsMatch(loc.match2a)
           /\ loc.match2a.Matched_ID = wa_codes_df[j].ID
           /\ loc.match2b.Matched_ID = wa_codes_df[j].ID

\* a birth-first match of name score n, as BirthFirstCandidate makes it
BirthMatchOf(id, n) ==
    [MatchOf(id, CombinedBirthFirst(n)) EXCEPT
        !.Name_Match_Score = n, !.Birth_Date_Match_Score = 100]

\* C20: a birth-first match has combined score >= 70 whatever its name
\* score (0 included); passed through alone it is the overall score, whose
\* band is not Low and which is recommended; when the approaches disagree
\* the overall score is >= 63.  Checked for every name score 0..100 on the
\* operators and on every iteration of the script.
C20_BirthFirstFloor ==
    /\ (pc = "load" /\ wa_codes_df = <<>>) =>
           \A n \in NameScores :
               LET alone == Combine(NoMatch, BirthMatchOf(2, n))
               IN  /\ CombinedBirthFirst(n) >= 7000
                   /\ alone.final_match = BirthMatchOf(2, n)
                   /\ alone.overall_score >= 7000
                   /\ Confidence(alone.overall_score) # "Low"
                   /\ Recommended(alone.overall_score) = TRUE
                   /\ \A n1 \in NameScores :
                          Combine(MatchOf(1, 100 * n1),
                                  BirthMatchOf(2, n)).overall_score >= 6300
    /\ Matched =>
           /\ \A m \in BirthFirstMatches : m.Combined_Match_Score >= 7000
           /\ (ExactlyOne /\ IsMatch(loc.best_match2))
                  => /\ loc.overall_score >= 7000
                     /\ Confidence(loc.overall_score) # "Low"
                     /\ Recommended(loc.overall_score) = TRUE
           /\ Disagree => loc.overall_score >= 6300
    /\ \A k \in WrittenRows :
           (athlete_df[k].A2_Match_Score # NoScore
            /\ athlete_df[k].A1_Match_Score = NoScore)
           => /\ athlete_df[k].WA_Match_Confidence # "Low"
              /\ athlete_df[k].WA_Recommended = TRUE

\* C20 witness: the birth-first match has name score 0 and combined score
\* exactly 70, the name-first approach has another record, and the overall
\* score is the lowest possible 63.
C20_Witness ==
    /\ Disagree
    /\ loc.best_match2.Name_Match_Score = 0
    /\ Score2 = 7000
    /\ loc.overall_score = 6300

\* the result appended for the last iteration carries the match m
ResultIs(m) ==
    /\ LastResult.Athlete_Index = loc.idx
    /\ LastResult.Final_Matched_ID = m.Matched_ID
    /\ LastResult.Final_Matched_Name = m.Matched_Name
    /\ LastResult.Final_Matched_Birth_Date = m.Matched_Birth_Date

\* C21: when the approaches have different IDs with equal combined scores,
\* the final match (ID, name, birth date) is the name-first one and the
\* overall score is 0.9 * the common score; the birth-first match is the
\* final match only when its score is strictly higher, and then the overall
\* score is 0.9 * its score.
C21_TieKeepsNameFirst ==
    Disagree =>
        /\ Score1 = Score2 =>
               /\ loc.final_match = loc.best_match1
               /\ 10 * loc.overall_score = 9 * Score1
               /\ ResultIs(loc.best_match1)
               /\ LastResult.Overall_Match_Score = loc.overall_score
        /\ loc.final_match.Matched_ID = loc.best_match2.Matched_ID =>
               /\ Score2 > Score1
               /\ 10 * loc.overall_score = 9 * Score2
               /\ ResultIs(loc.best_match2)
        /\ Score2 > Score1 => loc.final_match = loc.best_match2

\* C21 witness: the approaches have different IDs with the same combined
\* score, and the result carries the name-first match.
C21_Witness ==
    /\ Disagree
    /\ Score1 = Score2
    /\ LastResult.Final_Matched_ID = loc.best_match1.Matched_ID
    /\ LastResult.Final_Matched_ID # loc.best_match2.Matched_ID

---------------------------------------------------------------------------
(* Properties of fuzzymatch_3.py *)

\* the summary report of fuzzymatch_3.py has been made
Reported == pc3 = "done"

\* both libraries have a final match in the row
BothBackends(row) ==
    row.FW_Overall_Score # NoScore /\ row.RF_Overall_Score # NoScore

\* exactly one library has a final match in the row
OneBackend(row) ==
    (row.FW_Overall_Score # NoScore) # (row.RF_Overall_Score # NoScore)

\* the score of the one library that has a final match
TheBackendScore(row) ==
    IF row.FW_Overall_Score # NoScore THEN row.FW_Overall_Score
    ELSE row.RF_Overall_Score

\* C12 as stated: the finals of the two libraries are merged like the two
\* approaches: the mean for the same ID, 0.9 * the higher score for different
\* IDs, the score of a single library unchanged; the band is the band of the
\* merged score.
C12_BackendConsensus ==
    Reported =>
        \A k \in 1..Len(results_df) :
            LET row == results_df[k]
            IN  /\ (BothBackends(row) /\ row.FW_Matched_ID = row.RF_Matched_ID)
                       => 2 * row.Overall_Score
                              = row.FW_Overall_Score + row.RF_Overall_Score
                /\ (BothBackends(row) /\ row.FW_Matched_ID # row.RF_Matched_ID)
                       => 10 * row.Overall_Score
                              = 9 * Max(row.FW_Overall_Score,
                                        row.RF_Overall_Score)
                /\ OneBackend(row) => row.Overall_Score = TheBackendScore(row)
                /\ row.Overall_Score # NoScore
                       => row.Confidence = Confidence(row.Overall_Score)

\* C12 amended: Overall_Score is the plain mean of the two libraries' overall
\* scores whether or not their matched IDs agree (no 0.9 penalty, no merged
\* ID); the score of a single library is passed through unchanged; with no
\* library match it is nan and the band None; otherwise the band is the band
\* of Overall_Score.
C12_BackendMean ==
    Reported =>
        \A k \in 1..Len(results_df) :
            LET row == results_df[k]
            IN  /\ BothBackends(row)
                       => 2 * row.Overall_Score
                              = row.FW_Overall_Score + row.RF_Overall_Score
                /\ OneBackend(row) => row.Overall_Score = TheBackendScore(row)
                /\ (~BothBackends(row) /\ ~OneBackend(row))
                       => (row.Overall_Score = NoScore
                           /\ row.Confidence = "None")
                /\ row.Overall_Score # NoScore
                       => row.Confidence = Confidence(row.Overall_Score)

\* C12 witness: a reported row where the libraries matched different IDs
\* with different scores, and a row where only one library has a match.
C12_Witness ==
    /\ Reported
    /\ \E k \in 1..Len(results_df) :
           /\ BothBackends(results_df[k])
           /\ results_df[k].FW_Matched_ID # results_df[k].RF_Matched_ID
           /\ results_df[k].FW_Overall_Score > results_df[k].RF_Overall_Score
           /\ results_df[k].Overall_Score < results_df[k].FW_Overall_Score
    /\ \E k \in 1..Len(results_df) : OneBackend(results_df[k])


\* the rows of results_df for which a library found a final match
ResolvedRows ==
    {k \in 1..Len(results_df) :
        BothBackends(results_df[k]) \/ OneBackend(results_df[k])}

\* C18: in the summary report the matched count ("Total athletes matched")
\* is the number of athletes with a final match (0 when no athlete has one),
\* High + Medium + Low is that count, matched + unmatched is the number of
\* athletes, and the perfect count is at most the High count.
C18_SummaryAggregation ==
    Reported =>
        /\ summary.total_athletes = Cardinality(ResolvedRows)
        /\ summary.high_count + summary.medium_count + summary.low_count
               = summary.total_athletes
        /\ summary.total_athletes
               + (Len(results_df) - Cardinality(ResolvedRows))
               = Len(results_df)
        /\ summary.perfect_count <= summary.high_count


---------------------------------------------------------------------------
(* Properties of app.py *)

RECURSIVE CountTasks(_)
\* number of tasks in the bag that are equal to an element of the set S
CountTasks(S) ==
    IF S = {} THEN 0
    ELSE LET t == CHOOSE x \in S : TRUE
         IN  CopiesIn(t, tasks) + CountTasks(S \ {t})

\* number of tasks at a position
CountAt(at) == CountTasks(TasksAt(at))

\* number of tasks inside "async with semaphore", their request in flight
InFlight == CountAt("post")

\* C22: at most 10 tasks are inside the semaphore at any time; the permits
\* taken are exactly those of the tasks inside, so every task that has left
\* (with a dict or with None, on whichever path) has given its permit back,
\* the value never exceeds 10, and it is 10 again when the batch returns.
C22_SemaphoreBound ==
    /\ InFlight <= SemaphoreValue
    /\ semaphore \in 0..SemaphoreValue
    /\ semaphore + InFlight = SemaphoreValue
    /\ pc4 = "returned" => semaphore = SemaphoreValue

\* C22 witness: all 10 permits are taken and a task is waiting for one.
C22_Witness ==
    /\ InFlight = SemaphoreValue
    /\ semaphore = 0
    /\ TasksAt("start") # {}


\* the tasks that have returned
Returned == TasksAt("done") \cup TasksAt("awaited")

\* the response is HTTP 200 with a non-empty list of competitors
Found(response) ==
    /\ ~response.raised
    /\ response.status = 200
    /\ response.competitors # <<>>

\* number of entries of the returned list for the name
Entries(name) ==
    Cardinality({i \in 1..Len(fetched) : fetched[i].athlete_name = name})

\* number of occurrences of the name in athlete_names
Occurrences(name) ==
    Cardinality({i \in 1..Len(athlete_names) : athlete_names[i] = name})

\* what holds of a batch whatever the responses: a task that had a status
\* other than 200, an empty list or an exception has returned None; every
\* name has its tasks; the progress is the number of tasks awaited and,
\* when the batch returns, the number of names; no entry is None.
Isolated ==
    /\ \A t \in Returned :
           (t.response.status # 200 \/ t.response.competitors = <<>>
            \/ Raises(t.response)) => t.result = NoInfo
    /\ \A name \in Names :
           pc4 # "call" =>
               CountTasks({t \in BagToSet(tasks) : t.athlete_name = name})
                   = Occurrences(name)
    /\ progress = CountAt("awaited")
    /\ pc4 = "returned" => progress = Len(athlete_names)
    /\ \A i \in 1..Len(fetched) : fetched[i] # NoInfo

\* C23 as stated: failures are isolated, the batch completes, and the
\* returned list has exactly one entry for each task whose response was
\* HTTP 200 with a non-empty list, and no other entry.
C23_FailureIsolation ==
    /\ [](/\ Isolated
          /\ \A name \in Names :
                 Entries(name)
                     = CountTasks({t \in TasksAt("awaited") :
                                      /\ t.athlete_name = name
                                      /\ Found(t.response)}))
    /\ (pc4 = "loop") ~> (pc4 = "returned")

\* C23 amended: as stated, but the entries are those of the tasks whose
\* response was HTTP 200 with a non-empty list and whose try block raised
\* no exception, also not while the entry was built.
C23_IsolationExceptRaised ==
    /\ [](/\ Isolated
          /\ \A name \in Names :
                 Entries(name)
                     = CountTasks({t \in TasksAt("awaited") :
                                      /\ t.athlete_name = name
                                      /\ Found(t.response)
                                      /\ ~Raises(t.response)}))
    /\ (pc4 = "loop") ~> (pc4 = "returned")

\* C23 witness: a batch of two names has returned; one task raised an
\* exception and has no entry, the other has the only entry.
C23_Witness ==
    /\ pc4 = "returned"
    /\ Len(athlete_names) = 2
    /\ progress = 2
    /\ Len(fetched) = 1
    /\ \E t \in TasksAt("awaited") : Raises(t.response) /\ t.result = NoInfo
    /\ \E t \in TasksAt("awaited") :
           Found(t.response) /\ fetched[1] = t.result

===========================================================================
